---- MODULE Spec2Model ----
(***************************************************************************)
(* Model of the two inventory tools of forager365/awskms:                  *)
(*   - the KMS key report      (src/main.go)                               *)
(*   - the secrets exporter    (src/secpq.go, both parquet variants)       *)
(* Strings are TLA+ strings (Len, \o and SubSeq act on them), a Go map is  *)
(* a function, a Go slice is a sequence, a pointer is Nil or Ptr(value).   *)
(***************************************************************************)
EXTENDS Integers, Sequences, FiniteSets, TLC

VARIABLES
    \* ---- KMS report (src/main.go) ----
    pc,                 \* position of main: "list", "enrich", "done", "failed"
    kmsPages,           \* the account's key listing as the service pages it
    marker,             \* listAllKeys: marker
    allKeys,            \* listAllKeys: allKeys
    listCalls,          \* markers of the ListKeys calls issued so far
    keys,               \* main: keys
    idx,                \* main: position of the range loop over keys
    produced,           \* the KeyInfo values getKeyInfo returned, in loop order
    apiLog,             \* per getKeyInfo call: the DescribeKey / ListResourceTags outcomes
    enabledKeys,        \* main: enabledKeys
    notAuthorizedKeys,  \* main: notAuthorizedKeys
    allTagKeys,         \* main: allTagKeys (the key set of the map)
    sortedTagKeys,      \* main: sortedTagKeys
    enabledTable,       \* printEnabledKeysTable: headers, widths, rows
    naTable,            \* printNotAuthorizedKeysTable: headers, widths, rows
    stdout,             \* lines printed
    \* ---- secrets exporter (src/secpq.go) ----
    spc,                \* position of main: "list", "listed", "done"
    oldFile,            \* contents of the file at the output path when the run starts
    variant,            \* which of the two secpq programs runs
    secPages,           \* the account's secret listing as the service pages it
    firstPage,          \* ListSecretsPaginator.firstPage
    nextToken,          \* ListSecretsPaginator.nextToken
    secrets,            \* listSecrets: secrets
    listed,             \* main: secrets (the value listSecrets returned)
    listErr,            \* listSecrets: the err NextPage returned, Nil if none did
    file,               \* contents of the file at the output path
    exitCode            \* process exit status, Running until the process exits

kmsVars == <<pc, kmsPages, marker, allKeys, listCalls, keys, idx, produced, apiLog,
             enabledKeys, notAuthorizedKeys, allTagKeys, sortedTagKeys,
             enabledTable, naTable, stdout>>
secVars == <<spc, oldFile, variant, secPages, firstPage, nextToken, secrets, listed, listErr,
             file, exitCode>>
vars == <<kmsVars, secVars>>

\* a pointer is Nil or points to one value
Nil == <<>>
Ptr(v) == <<v>>
Deref(p) == p[1]

\* ------------------------------------------------------------------ bounds
MaxKeys == 3
MaxPageSize == 2
MaxSecrets == 2
MaxSecretPageSize == 2

\* ------------------------------------------------------------------ strings
Min(S) == CHOOSE x \in S : \A y \in S : x <= y
Max(S) == CHOOSE x \in S : \A y \in S : y <= x

\* strings.Contains
Contains(s, sub) ==
    \E i \in 1..(Len(s) - Len(sub) + 1) : SubSeq(s, i, i + Len(sub) - 1) = sub

\* the bytes the model's strings are made of, in byte order
Ascii == " -0123456789:=ABCDEFGHIJKLMNOPQRSTUVWXYZ_abcdefghijklmnopqrstuvwxyz|"
CharAt(s, i) == SubSeq(s, i, i)
ByteOf(c) == CHOOSE i \in 1..Len(Ascii) : CharAt(Ascii, i) = c

\* Go's < on strings: byte-wise lexicographic
StrLess(a, b) ==
    LET n == IF Len(a) < Len(b) THEN Len(a) ELSE Len(b)
        diff == {i \in 1..n : CharAt(a, i) # CharAt(b, i)}
    IN  IF diff = {} THEN Len(a) < Len(b)
        ELSE ByteOf(CharAt(a, Min(diff))) < ByteOf(CharAt(b, Min(diff)))

RECURSIVE Repeat(_, _)
\* strings.Repeat
Repeat(s, n) == IF n <= 0 THEN "" ELSE s \o Repeat(s, n - 1)

RECURSIVE InsertSorted(_, _)
InsertSorted(x, s) ==
    IF s = <<>> THEN <<x>>
    ELSE IF StrLess(Head(s), x) THEN <<Head(s)>> \o InsertSorted(x, Tail(s))
    ELSE <<x>> \o s

RECURSIVE SortStrings(_)
\* sort.Strings
SortStrings(s) == IF s = <<>> THEN <<>> ELSE InsertSorted(Head(s), SortStrings(Tail(s)))

\* the orders in which a range over a map with key set S can enumerate it
Enumerations(S) ==
    {s \in [1..Cardinality(S) -> S] : \A i, j \in DOMAIN s : i # j => s[i] # s[j]}

\* ------------------------------------------------------------------ time
\* time.Time in UTC: day since 1970-01-01, second of the day, nanosecond
ZeroTime == [day |-> -719162, sod |-> 0, nsec |-> 0]
Unix(t) == t.day * 86400 + t.sod

Pad2(n) == IF n < 10 THEN "0" \o ToString(n) ELSE ToString(n)
Pad4(n) == IF n < 10 THEN "000" \o ToString(n)
           ELSE IF n < 100 THEN "00" \o ToString(n)
           ELSE IF n < 1000 THEN "0" \o ToString(n)
           ELSE ToString(n)

\* time.Time.Format("2006-01-02 15:04:05")
FormatDate(t) ==
    LET z    == t.day + 719468
        era  == z \div 146097
        doe  == z - era * 146097
        yoe  == (doe - doe \div 1460 + doe \div 36524 - doe \div 146096) \div 365
        doy  == doe - (365 * yoe + yoe \div 4 - yoe \div 100)
        mp   == (5 * doy + 2) \div 153
        d    == doy - (153 * mp + 2) \div 5 + 1
        m    == IF mp < 10 THEN mp + 3 ELSE mp - 9
        y    == yoe + era * 400 + (IF m <= 2 THEN 1 ELSE 0)
    IN  Pad4(y) \o "-" \o Pad2(m) \o "-" \o Pad2(d) \o " " \o
        Pad2(t.sod \div 3600) \o ":" \o Pad2((t.sod % 3600) \div 60) \o ":" \o
        Pad2(t.sod % 60)

\* ================================================================== KMS report
\* ------------------------------------------------------------------ the KMS service
\* key identifiers are opaque strings; the listing holds the first n of them
KeyIdOf(i) == IF i % 2 = 0 THEN "key-000" \o ToString(i) ELSE "k" \o ToString(i)

RECURSIVE Chunk(_, _)
\* a listing cut into pages of at most size entries (at least one page)
Chunk(s, size) ==
    IF Len(s) <= size THEN <<s>>
    ELSE <<SubSeq(s, 1, size)>> \o Chunk(SubSeq(s, size + 1, Len(s)), size)

\* the continuation token the service hands out with page i
TokenOf(i) == "m" \o ToString(i)
PageIndex(m) == IF m = Nil THEN 1 ELSE CHOOSE i \in 2..(MaxKeys + 2) : TokenOf(i) = Deref(m)

\* kms.ListKeysOutput for a call with marker m
ListKeysOutput(m) ==
    LET i == PageIndex(m)
        more == i < Len(kmsPages)
    IN  [Keys |-> kmsPages[i], Truncated |-> more,
         NextMarker |-> IF more THEN Ptr(TokenOf(i + 1)) ELSE Nil]

\* errors DescribeKey can return: an API error (code, message); a transport error
\* has no code
DescribeErrors ==
    { [code |-> "AccessDeniedException", message |-> "User is not authorized to perform kms:DescribeKey"],
      [code |-> "AccessDeniedException", message |-> ""],
      [code |-> "KMSInternalException", message |-> "internal failure"] }

\* err.Error() of an SDK operation error
ErrorString(e) ==
    IF e.code = "" THEN "operation error KMS: " \o e.message
    ELSE "operation error KMS: api error " \o e.code \o ": " \o e.message

T1 == [day |-> 19675, sod |-> 80000, nsec |-> 0]

\* types.KeyMetadata values DescribeKey can return
KeyMetadatas ==
    { [KeyState |-> "Enabled", CreationDate |-> Ptr(T1), KeySpec |-> "SYMMETRIC_DEFAULT"],
      [KeyState |-> "Enabled", CreationDate |-> Nil, KeySpec |-> "RSA_2048"],
      [KeyState |-> "Disabled", CreationDate |-> Ptr(T1), KeySpec |-> "RSA_2048"],
      [KeyState |-> "PendingDeletion", CreationDate |-> Nil, KeySpec |-> "SYMMETRIC_DEFAULT"] }

DescribeOutcomes ==
    {[ok |-> FALSE, err |-> e] : e \in DescribeErrors} \cup
    {[ok |-> TRUE, meta |-> m] : m \in KeyMetadatas}

Tag(k, v) == [TagKey |-> k, TagValue |-> v]

\* tag lists ListResourceTags can return (tag keys are non-empty and distinct within a list)
TagLists ==
    { <<Tag("Env", "prod")>>,
      <<Tag("Team", "x")>> }

TagOutcomes == {[ok |-> FALSE]} \cup {[ok |-> TRUE, tags |-> l] : l \in TagLists}
NoCall == [ok |-> FALSE, called |-> FALSE]

\* ------------------------------------------------------------------ listAllKeys
RECURSIVE FilterKeys(_, _)
\* the inner loop over output.Keys: managers[i] is what DescribeKey said of key i
\* ("err": the call failed, else the KeyManager)
FilterKeys(pageKeys, managers) ==
    IF pageKeys = <<>> THEN <<>>
    ELSE (IF Head(managers) = "err" \/ Head(managers) = "CUSTOMER"
          THEN <<Head(pageKeys)>> ELSE <<>>)
         \o FilterKeys(Tail(pageKeys), Tail(managers))

\* the loop body without pagination: it returns after the first page
ListLoopBody_FirstPageOnly(acc, output, managers) ==
    [allKeys |-> acc \o FilterKeys(output.Keys, managers),
     break   |-> TRUE,
     marker  |-> output.NextMarker]

\* one iteration of the for loop of listAllKeys after a successful ListKeys call
ListLoopBody(acc, output, managers) ==
    [allKeys |-> acc \o FilterKeys(output.Keys, managers),
     break   |-> ~output.Truncated,
     marker  |-> output.NextMarker]

ListKeysPage ==
    /\ pc = "list"
    /\ LET output == ListKeysOutput(marker) IN
       \E managers \in [1..Len(output.Keys) -> {"err", "CUSTOMER", "AWS"}] :
          LET r == ListLoopBody(allKeys, output, managers) IN
          /\ listCalls' = Append(listCalls, marker)
          /\ allKeys' = r.allKeys
          /\ IF r.break
             THEN /\ pc' = "enrich"
                  /\ keys' = r.allKeys
                  /\ marker' = marker
             ELSE /\ pc' = "list"
                  /\ keys' = keys
                  /\ marker' = r.marker
    /\ UNCHANGED <<kmsPages, idx, produced, apiLog, enabledKeys, notAuthorizedKeys,
                   allTagKeys, sortedTagKeys, enabledTable, naTable, stdout>>
    /\ UNCHANGED secVars

\* ListKeys returns an error: listAllKeys returns nil, err and main exits with status 1
ListKeysFail ==
    /\ pc = "list"
    /\ listCalls' = Append(listCalls, marker)
    /\ keys' = <<>>
    /\ pc' = "failed"
    /\ UNCHANGED <<kmsPages, marker, allKeys, idx, produced, apiLog, enabledKeys,
                   notAuthorizedKeys, allTagKeys, sortedTagKeys, enabledTable, naTable,
                   stdout>>
    /\ UNCHANGED secVars

\* ------------------------------------------------------------------ getKeyInfo
EmptyMap == [x \in {} |-> ""]
MapPut(m, k, v) == [x \in DOMAIN m \cup {k} |-> IF x = k THEN v ELSE m[x]]
MapGet(m, k) == IF k \in DOMAIN m THEN m[k] ELSE ""

RECURSIVE TagsInto(_, _)
\* for _, tag := range tagsOutput.Tags { info.Tags[*tag.TagKey] = *tag.TagValue }
TagsInto(m, list) ==
    IF list = <<>> THEN m
    ELSE TagsInto(MapPut(m, Head(list).TagKey, Head(list).TagValue), Tail(list))

\* getKeyInfo filling in the key id only after a successful DescribeKey
getKeyInfo_NoIdOnError(keyID, d, t) ==
    LET info == [KeyID |-> keyID, Status |-> "", CreationDate |-> ZeroTime,
                 KeyType |-> "", Tags |-> EmptyMap]
        i1 == IF d.ok
              THEN [info EXCEPT !.Status = d.meta.KeyState,
                                !.CreationDate = IF d.meta.CreationDate # Nil
                                                 THEN Deref(d.meta.CreationDate) ELSE ZeroTime,
                                !.KeyType = d.meta.KeySpec]
              ELSE [info EXCEPT !.KeyID = "",
                                !.Status = IF Contains(ErrorString(d.err), "AccessDenied")
                                              \/ Contains(ErrorString(d.err), "not authorized")
                                           THEN "Not Authorized"
                                           ELSE "Error: " \o ErrorString(d.err)]
        call == d.ok /\ d.meta.KeyState = "Enabled"
    IN  [info |-> IF call /\ t.ok THEN [i1 EXCEPT !.Tags = TagsInto(EmptyMap, t.tags)] ELSE i1,
         tagsCalled |-> call]

\* getKeyInfo recognising a denial by the phrase "not authorized" alone
getKeyInfo_PhraseOnly(keyID, d, t) ==
    LET info == [KeyID |-> keyID, Status |-> "", CreationDate |-> ZeroTime,
                 KeyType |-> "", Tags |-> EmptyMap]
        i1 == IF d.ok
              THEN [info EXCEPT !.Status = d.meta.KeyState,
                                !.CreationDate = IF d.meta.CreationDate # Nil
                                                 THEN Deref(d.meta.CreationDate) ELSE ZeroTime,
                                !.KeyType = d.meta.KeySpec]
              ELSE [info EXCEPT !.Status = IF Contains(ErrorString(d.err), "not authorized")
                                           THEN "Not Authorized"
                                           ELSE "Error: " \o ErrorString(d.err)]
        call == d.ok /\ d.meta.KeyState = "Enabled"
    IN  [info |-> IF call /\ t.ok THEN [i1 EXCEPT !.Tags = TagsInto(EmptyMap, t.tags)] ELSE i1,
         tagsCalled |-> call]

\* getKeyInfo fetching the tags of every key DescribeKey succeeds on
getKeyInfo_TagsForAnyState(keyID, d, t) ==
    LET info == [KeyID |-> keyID, Status |-> "", CreationDate |-> ZeroTime,
                 KeyType |-> "", Tags |-> EmptyMap]
        i1 == IF d.ok
              THEN [info EXCEPT !.Status = d.meta.KeyState,
                                !.CreationDate = IF d.meta.CreationDate # Nil
                                                 THEN Deref(d.meta.CreationDate) ELSE ZeroTime,
                                !.KeyType = d.meta.KeySpec]
              ELSE [info EXCEPT !.Status = IF Contains(ErrorString(d.err), "AccessDenied")
                                              \/ Contains(ErrorString(d.err), "not authorized")
                                           THEN "Not Authorized"
                                           ELSE "Error: " \o ErrorString(d.err)]
        call == d.ok
    IN  [info |-> IF call /\ t.ok THEN [i1 EXCEPT !.Tags = TagsInto(EmptyMap, t.tags)] ELSE i1,
         tagsCalled |-> call]

\* getKeyInfo, given what DescribeKey (d) and, if it is called, ListResourceTags (t)
\* answer; tagsCalled tells whether ListResourceTags was called
getKeyInfo(keyID, d, t) ==
    LET info == [KeyID |-> keyID, Status |-> "", CreationDate |-> ZeroTime,
                 KeyType |-> "", Tags |-> EmptyMap]
    IN  IF ~d.ok
        THEN IF Contains(ErrorString(d.err), "AccessDenied")
                \/ Contains(ErrorString(d.err), "not authorized")
             THEN [info |-> [info EXCEPT !.Status = "Not Authorized"], tagsCalled |-> FALSE]
             ELSE [info |-> [info EXCEPT !.Status = "Error: " \o ErrorString(d.err)],
                   tagsCalled |-> FALSE]
        ELSE LET i1 == [info EXCEPT
                          !.Status = d.meta.KeyState,
                          !.CreationDate = IF d.meta.CreationDate # Nil
                                           THEN Deref(d.meta.CreationDate) ELSE ZeroTime,
                          !.KeyType = d.meta.KeySpec]
             IN  IF d.meta.KeyState = "Enabled"
                 THEN [info |-> IF t.ok THEN [i1 EXCEPT !.Tags = TagsInto(EmptyMap, t.tags)]
                                ELSE i1,
                       tagsCalled |-> TRUE]
                 ELSE [info |-> i1, tagsCalled |-> FALSE]

\* the slice choice treating every status but "Enabled" as a denial
SliceOf_RestIsDenied(status) ==
    IF status = "Enabled" THEN "enabledKeys" ELSE "notAuthorizedKeys"

\* the if / else if of the loop body: the slice a record with this Status is appended
\* to, "none" when it is appended to neither
SliceOf(status) ==
    IF status = "Not Authorized" THEN "notAuthorizedKeys"
    ELSE IF status = "Enabled" THEN "enabledKeys"
    ELSE "none"

\* one iteration of the range loop of main over keys
Enrich ==
    /\ pc = "enrich"
    /\ idx <= Len(keys)
    /\ \E d \in DescribeOutcomes :
       \E t \in IF getKeyInfo(keys[idx], d, NoCall).tagsCalled THEN TagOutcomes ELSE {NoCall} :
          LET r == getKeyInfo(keys[idx], d, t)
              keyInfo == r.info
          IN  /\ produced' = Append(produced, keyInfo)
              /\ apiLog' = Append(apiLog, [KeyId |-> keys[idx], describe |-> d,
                                           tags |-> t])
              /\ IF SliceOf(keyInfo.Status) = "notAuthorizedKeys"
                 THEN /\ notAuthorizedKeys' = Append(notAuthorizedKeys, keyInfo)
                      /\ UNCHANGED <<enabledKeys, allTagKeys>>
                 ELSE IF SliceOf(keyInfo.Status) = "enabledKeys"
                 THEN /\ enabledKeys' = Append(enabledKeys, keyInfo)
                      /\ allTagKeys' = allTagKeys \cup DOMAIN keyInfo.Tags
                      /\ UNCHANGED notAuthorizedKeys
                 ELSE UNCHANGED <<enabledKeys, notAuthorizedKeys, allTagKeys>>
    /\ idx' = idx + 1
    /\ UNCHANGED <<pc, kmsPages, marker, allKeys, listCalls, keys, sortedTagKeys,
                   enabledTable, naTable, stdout>>
    /\ UNCHANGED secVars

\* ------------------------------------------------------------------ tables
Running == -1

RECURSIVE JoinCells(_, _, _)
\* the loop of printRow: fmt.Printf("| %-*s ", widths[i], v), which pads v on the
\* right with spaces up to widths[i] and prints a longer v whole
JoinCells(values, widths, i) ==
    IF i > Len(values) THEN ""
    ELSE "| " \o values[i] \o Repeat(" ", widths[i] - Len(values[i])) \o " "
         \o JoinCells(values, widths, i + 1)

printRow(values, widths) == JoinCells(values, widths, 1) \o "|"

RECURSIVE JoinRules(_, _)
JoinRules(widths, i) ==
    IF i > Len(widths) THEN ""
    ELSE "+-" \o Repeat("-", widths[i]) \o "-" \o JoinRules(widths, i + 1)

printSeparator(widths) == JoinRules(widths, 1) \o "+"

\* the text of the cells one key contributes to the width computation of the
\* enabled table (a tag the key does not carry reads as "")
MeasuredCells(key, tagKeys) ==
    <<key.KeyID, key.Status, FormatDate(key.CreationDate), key.KeyType>>
    \o [j \in 1..Len(tagKeys) |-> MapGet(key.Tags, tagKeys[j])]

\* the width computation never looking at the rows
WidenAll_HeadersOnly(widths, cellRows) == widths

RECURSIVE WidenAll(_, _)
\* "Calculate max widths from data": widen widths by every row of cells in turn
WidenAll(widths, cellRows) ==
    IF cellRows = <<>> THEN widths
    ELSE WidenAll([i \in DOMAIN widths |->
                      IF Len(Head(cellRows)[i]) > widths[i]
                      THEN Len(Head(cellRows)[i]) ELSE widths[i]],
                  Tail(cellRows))

printEnabledKeysTable(ks, tagKeys) ==
    LET headers == <<"Key ID", "Status", "Creation Date", "Key Type">> \o tagKeys
        widths0 == [i \in 1..Len(headers) |-> Len(headers[i])]
        widths  == WidenAll(widths0, [k \in 1..Len(ks) |-> MeasuredCells(ks[k], tagKeys)])
        rows    == [k \in 1..Len(ks) |->
                      <<ks[k].KeyID, ks[k].Status, FormatDate(ks[k].CreationDate),
                        ks[k].KeyType>>
                      \o [j \in 1..Len(tagKeys) |->
                            IF MapGet(ks[k].Tags, tagKeys[j]) = "" THEN "-"
                            ELSE MapGet(ks[k].Tags, tagKeys[j])]]
    IN  [headers |-> headers, widths |-> widths, rows |-> rows,
         lines |-> <<printRow(headers, widths), printSeparator(widths)>>
                   \o [k \in 1..Len(ks) |-> printRow(rows[k], widths)]]

printNotAuthorizedKeysTable(ks) ==
    LET headers == <<"Key ID", "Status">>
        widths0 == <<Len(headers[1]), Len(headers[2])>>
        widths  == WidenAll(widths0, [k \in 1..Len(ks) |-> <<ks[k].KeyID, ks[k].Status>>])
        rows    == [k \in 1..Len(ks) |-> <<ks[k].KeyID, ks[k].Status>>]
    IN  [headers |-> headers, widths |-> widths, rows |-> rows,
         lines |-> <<printRow(headers, widths), printSeparator(widths)>>
                   \o [k \in 1..Len(ks) |-> printRow(rows[k], widths)]]

NoTable == [headers |-> <<>>, widths |-> <<>>, rows |-> <<>>, lines |-> <<>>]

\* ------------------------------------------------------------------ main, after the loop
\* the tag columns left in the order the map range yields them
TagColumns_Unsorted(order) == order

\* the tag columns: the keys of allTagKeys in the order the map range yields them, sorted
TagColumns(order) == SortStrings(order)

Report ==
    /\ pc = "enrich"
    /\ idx > Len(keys)
    /\ \E order \in Enumerations(allTagKeys) :
          LET cols == TagColumns(order)
              et == IF Len(enabledKeys) > 0 THEN printEnabledKeysTable(enabledKeys, cols)
                    ELSE NoTable
              nt == IF Len(notAuthorizedKeys) > 0
                    THEN printNotAuthorizedKeysTable(notAuthorizedKeys)
                    ELSE NoTable
          IN  /\ sortedTagKeys' = cols
              /\ enabledTable' = et
              /\ naTable' = nt
              /\ stdout' =
                    (IF Len(enabledKeys) > 0
                     THEN <<"=== ENABLED KEYS ===", "">> \o et.lines ELSE <<>>)
                    \o (IF Len(notAuthorizedKeys) > 0
                        THEN <<"", "=== NOT AUTHORIZED KEYS ===", "">> \o nt.lines ELSE <<>>)
                    \o <<"",
                         "Total Customer Managed Keys: " \o ToString(Len(keys)),
                         "  Enabled: " \o ToString(Len(enabledKeys)),
                         "  Not Authorized: " \o ToString(Len(notAuthorizedKeys))>>
    /\ pc' = "done"
    /\ UNCHANGED <<kmsPages, marker, allKeys, listCalls, keys, idx, produced, apiLog,
                   enabledKeys, notAuthorizedKeys, allTagKeys>>
    /\ UNCHANGED secVars

\* ------------------------------------------------------------------ the KMS program
SecIdle ==
    /\ spc = "idle" /\ variant = "none" /\ secPages = <<>> /\ firstPage = FALSE
    /\ nextToken = Nil /\ secrets = <<>> /\ listed = <<>> /\ listErr = Nil
    /\ file = Nil /\ oldFile = Nil /\ exitCode = Running

KmsInit ==
    /\ pc = "list"
    /\ \E n \in 0..MaxKeys, size \in 1..MaxPageSize :
          kmsPages = Chunk([i \in 1..n |-> KeyIdOf(i)], size)
    /\ marker = Nil
    /\ allKeys = <<>>
    /\ listCalls = <<>>
    /\ keys = <<>>
    /\ idx = 1
    /\ produced = <<>>
    /\ apiLog = <<>>
    /\ enabledKeys = <<>>
    /\ notAuthorizedKeys = <<>>
    /\ allTagKeys = {}
    /\ sortedTagKeys = <<>>
    /\ enabledTable = NoTable
    /\ naTable = NoTable
    /\ stdout = <<>>
    /\ SecIdle

KmsNext == ListKeysPage \/ ListKeysFail \/ Enrich \/ Report

Spec == KmsInit /\ [][KmsNext]_vars

\* ================================================================== secrets exporter
\* ------------------------------------------------------------------ the Secrets Manager service
T2 == [day |-> 19676, sod |-> 0, nsec |-> 0]
T3 == [day |-> 0, sod |-> 86399, nsec |-> 999000000]
T4 == [day |-> 1, sod |-> 0, nsec |-> 0]

STag(k, v) == [Key |-> k, Value |-> v]

\* types.SecretListEntry values the listing can hold (timestamps are not before 1970)
SecretEntries ==
    { [Name |-> "app/db", Description |-> Nil, CreatedDate |-> Ptr(T3),
       LastAccessedDate |-> Ptr(T1), Tags |-> <<>>],
      [Name |-> "app/api", Description |-> Ptr(""), CreatedDate |-> Nil,
       LastAccessedDate |-> Ptr(T2), Tags |-> <<STag("Env", "prod")>>],
      [Name |-> "ops/ssh", Description |-> Ptr("ssh key"), CreatedDate |-> Ptr(T1),
       LastAccessedDate |-> Nil, Tags |-> <<STag("Env", "dev"), STag("Team", "x")>>],
      [Name |-> "old/one", Description |-> Nil, CreatedDate |-> Ptr(T4),
       LastAccessedDate |-> Ptr(T3), Tags |-> <<>>],
      [Name |-> "old/two", Description |-> Ptr("first day"), CreatedDate |-> Nil,
       LastAccessedDate |-> Ptr(T4), Tags |-> <<>>] }

\* the listings of at most n distinct entries
Listings(n) ==
    UNION {{l \in [1..k -> SecretEntries] : \A i, j \in 1..k : i # j => l[i] # l[j]}
           : k \in 0..n}

\* the secrets of the account in listing order
Listing == IF secPages = <<>> THEN <<>>
           ELSE LET RECURSIVE Flat(_)
                    Flat(i) == IF i > Len(secPages) THEN <<>> ELSE secPages[i] \o Flat(i + 1)
                IN  Flat(1)

SecPageIndex(tok) ==
    IF tok = Nil THEN 1 ELSE CHOOSE i \in 2..(MaxSecrets + 2) : TokenOf(i) = Deref(tok)

\* secretsmanager.ListSecretsOutput for a call with NextToken tok
ListSecretsOutput(tok) ==
    LET i == SecPageIndex(tok) IN
    [SecretList |-> secPages[i],
     NextToken |-> IF i < Len(secPages) THEN Ptr(TokenOf(i + 1)) ELSE Nil]

\* errors ListSecrets can return: API errors with a code, and errors that are no
\* smithy.APIError (api = FALSE)
ListErrors ==
    { [api |-> TRUE, code |-> "AccessDeniedException"],
      [api |-> TRUE, code |-> "InternalServiceError"],
      [api |-> FALSE, code |-> ""] }

\* ------------------------------------------------------------------ listSecrets
isNotAuthorizedError(e) ==
    IF e.api
    THEN \/ e.code = "AccessDeniedException"
         \/ e.code = "UnauthorizedOperation"
         \/ e.code = "UnauthorizedException"
         \/ Contains(e.code, "NotAuthorized")
    ELSE FALSE

\* Go's integer division: the quotient truncated toward zero
GoDiv(a, b) == IF a >= 0 THEN a \div b ELSE -((-a) \div b)

\* a day count rounded to the nearest day instead of truncated
EpochDays_Rounded(sec) == GoDiv(sec + 43200, 86400)

\* int32(t.Unix() / 86400); the quotient of an int64 second count of this range by
\* 86400 is within int32, so the conversion keeps the value
EpochDays(sec) == GoDiv(sec, 86400)

RECURSIVE STagsInto(_, _)
\* for _, tag := range secret.Tags { record.Tags[key] = value }
STagsInto(m, list) ==
    IF list = <<>> THEN m
    ELSE STagsInto(MapPut(m, Head(list).Key, Head(list).Value), Tail(list))

\* the record built from an entry with the description copied whenever it is present
SecretRecordOf_KeepEmpty(secret, v) ==
    [Name |-> secret.Name,
     Description |-> secret.Description,
     CreatedDate |->
        IF secret.CreatedDate = Nil THEN Nil
        ELSE IF v = "parquet-go" THEN secret.CreatedDate
        ELSE Ptr(EpochDays(Unix(Deref(secret.CreatedDate)))),
     LastAccessedDate |->
        IF secret.LastAccessedDate = Nil THEN Nil
        ELSE Ptr(EpochDays(Unix(Deref(secret.LastAccessedDate)))),
     Tags |-> IF Len(secret.Tags) > 0 THEN Ptr(STagsInto(EmptyMap, secret.Tags)) ELSE Nil]

\* the body of the loop over page.SecretList: the SecretRecord built from one entry;
\* v is the program variant, which decides how CreatedDate is kept
SecretRecordOf(secret, v) ==
    [Name |-> secret.Name,
     Description |->
        IF secret.Description # Nil /\ Deref(secret.Description) # ""
        THEN secret.Description ELSE Nil,
     CreatedDate |->
        IF secret.CreatedDate = Nil THEN Nil
        ELSE IF v = "parquet-go" THEN secret.CreatedDate
        ELSE Ptr(EpochDays(Unix(Deref(secret.CreatedDate)))),
     LastAccessedDate |->
        IF secret.LastAccessedDate = Nil THEN Nil
        ELSE Ptr(EpochDays(Unix(Deref(secret.LastAccessedDate)))),
     Tags |-> IF Len(secret.Tags) > 0 THEN Ptr(STagsInto(EmptyMap, secret.Tags)) ELSE Nil]

\* ListSecretsPaginator.HasMorePages
HasMorePages(first, tok) == first \/ (tok # Nil /\ Len(Deref(tok)) # 0)

\* one iteration of the loop of listSecrets in which NextPage succeeds
SecNextPage ==
    /\ spc = "list"
    /\ HasMorePages(firstPage, nextToken)
    /\ LET page == ListSecretsOutput(nextToken)
           recs == [i \in 1..Len(page.SecretList) |-> SecretRecordOf(page.SecretList[i], variant)]
       IN  /\ secrets' = secrets \o recs
           /\ firstPage' = FALSE
           /\ nextToken' = page.NextToken
           /\ IF HasMorePages(FALSE, page.NextToken)
              THEN /\ spc' = "list"
                   /\ listed' = listed
              ELSE /\ spc' = "listed"
                   /\ listed' = secrets \o recs
    /\ UNCHANGED <<oldFile, variant, secPages, listErr, file, exitCode>>
    /\ UNCHANGED kmsVars

\* one iteration of the loop of listSecrets in which NextPage fails: a denial returns
\* secrets, nil; any other error returns nil, err and main exits with status 1
SecNextPageFail ==
    /\ spc = "list"
    /\ HasMorePages(firstPage, nextToken)
    /\ \E e \in ListErrors :
          /\ listErr' = Ptr(e)
          /\ IF isNotAuthorizedError(e)
             THEN /\ listed' = secrets
                  /\ spc' = "listed"
                  /\ exitCode' = exitCode
             ELSE /\ listed' = <<>>
                  /\ spc' = "done"
                  /\ exitCode' = 1
    /\ UNCHANGED <<oldFile, variant, secPages, firstPage, nextToken, secrets, file>>
    /\ UNCHANGED kmsVars

\* ------------------------------------------------------------------ writeParquet
\* the row the parquet writer stores for a record: optional fields that are nil are
\* null, a *time.Time is stored as a millisecond timestamp
RowOf(rec, v) ==
    [name |-> rec.Name,
     description |-> rec.Description,
     created_date |->
        IF rec.CreatedDate = Nil THEN Nil
        ELSE IF v = "parquet-go"
             THEN Ptr([sec |-> Unix(Deref(rec.CreatedDate)),
                       ms |-> Deref(rec.CreatedDate).nsec \div 1000000])
             ELSE rec.CreatedDate,
     last_accessed_date |-> rec.LastAccessedDate,
     tags |-> rec.Tags]

RowsOf(recs, v) == [i \in 1..Len(recs) |-> RowOf(recs[i], v)]

FileOf(rows) == Ptr([complete |-> TRUE, rows |-> rows])
FileRows(f) == Deref(f).rows

\* the rows left at the path by an earlier run
StaleFile ==
    FileOf(<<[name |-> "gone/secret", description |-> Nil, created_date |-> Nil,
              last_accessed_date |-> Ptr(19000), tags |-> Nil]>>)

\* writeParquet opening the file for appending instead of creating it anew
writeParquet_Append(old, recs, v, outcome) ==
    IF outcome = "create failed" THEN [file |-> old, err |-> TRUE]
    ELSE IF outcome = "ok"
    THEN [file |-> FileOf((IF old = Nil THEN <<>> ELSE FileRows(old)) \o RowsOf(recs, v)),
          err |-> FALSE]
    ELSE [file |-> Ptr([complete |-> FALSE, rows |-> <<>>]), err |-> TRUE]

\* writeParquet on a path holding old: os.Create truncates the file, the writer
\* writes the rows, closing the writer completes the file; outcome says which step,
\* if any, fails
writeParquet(old, recs, v, outcome) ==
    IF outcome = "create failed" THEN [file |-> old, err |-> TRUE]
    ELSE IF outcome = "ok" THEN [file |-> FileOf(RowsOf(recs, v)), err |-> FALSE]
    ELSE [file |-> Ptr([complete |-> FALSE, rows |-> <<>>]), err |-> TRUE]

\* main after listSecrets returned no record: "No secrets found", os.Exit(0)
SecExitEmpty ==
    /\ spc = "listed"
    /\ Len(listed) = 0
    /\ exitCode' = 0
    /\ spc' = "done"
    /\ UNCHANGED <<oldFile, variant, secPages, firstPage, nextToken, secrets, listed,
                   listErr, file>>
    /\ UNCHANGED kmsVars

\* main writing the records: exit status 1 if writeParquet fails, else 0
SecWrite ==
    /\ spc = "listed"
    /\ Len(listed) # 0
    /\ \E outcome \in {"ok", "create failed", "write failed", "close failed"} :
          LET r == writeParquet(file, listed, variant, outcome) IN
          /\ file' = r.file
          /\ exitCode' = IF r.err THEN 1 ELSE 0
    /\ spc' = "done"
    /\ UNCHANGED <<oldFile, variant, secPages, firstPage, nextToken, secrets, listed,
                   listErr>>
    /\ UNCHANGED kmsVars

\* ------------------------------------------------------------------ the secrets program
KmsIdle ==
    /\ pc = "idle" /\ kmsPages = <<>> /\ marker = Nil /\ allKeys = <<>>
    /\ listCalls = <<>> /\ keys = <<>> /\ idx = 1 /\ produced = <<>> /\ apiLog = <<>>
    /\ enabledKeys = <<>> /\ notAuthorizedKeys = <<>> /\ allTagKeys = {}
    /\ sortedTagKeys = <<>> /\ enabledTable = NoTable /\ naTable = NoTable
    /\ stdout = <<>>

SecInit ==
    /\ spc = "list"
    /\ variant \in {"parquet-go", "xitongsys"}
    /\ \E l \in Listings(MaxSecrets), size \in 1..MaxSecretPageSize :
          secPages = Chunk(l, size)
    /\ firstPage = TRUE
    /\ nextToken = Nil
    /\ secrets = <<>>
    /\ listed = <<>>
    /\ listErr = Nil
    /\ oldFile \in {Nil, StaleFile}
    /\ file = oldFile
    /\ exitCode = Running
    /\ KmsIdle

SecNext == SecNextPage \/ SecNextPageFail \/ SecExitEmpty \/ SecWrite

SecSpec == SecInit /\ [][SecNext]_vars

\* ================================================================== properties: KMS report
RECURSIVE SumWidths(_, _)
\* the characters printRow and printSeparator spend on the first n columns
SumWidths(widths, n) == IF n = 0 THEN 0 ELSE SumWidths(widths, n - 1) + widths[n] + 3

\* C1: the enrichment loop produces exactly one KeyInfo per identifier listAllKeys
\* returned, whatever DescribeKey and ListResourceTags answer: while the loop runs it
\* has produced one record per key visited, at its end as many records as there are
\* keys, and record i carries the id of key i.
C1_OneRecordPerKey ==
    /\ pc = "enrich" => Len(produced) = idx - 1
    /\ pc = "done" => Len(produced) = Len(keys)
    /\ Len(produced) <= Len(keys)
    /\ \A i \in DOMAIN produced : produced[i].KeyID = keys[i]

C1_Witness ==
    /\ pc = "done"
    /\ Len(keys) >= 3
    /\ Len(produced) = Len(keys)
    /\ \E i, j, k \in DOMAIN produced :
          /\ produced[i].Status = "Not Authorized"
          /\ SubSeq(produced[j].Status, 1, 6) = "Error:"
          /\ produced[k].Status = "Enabled" /\ ~apiLog[k].tags.ok

\* the access-denied signature of a DescribeKey error: the access-denied error code,
\* or one of the denial phrases in the message
AccessDeniedSignature(e) ==
    \/ e.code = "AccessDeniedException"
    \/ Contains(e.message, "AccessDenied")
    \/ Contains(e.message, "not authorized")

\* C3: a key whose DescribeKey call fails with an access-denied signature gets
\* Status "Not Authorized" and empty Tags whatever the message text is; any other
\* DescribeKey failure gets Status "Error: <error text>" and empty Tags.
C3_DeniedIsNotAuthorized ==
    \A i \in DOMAIN produced :
        ~apiLog[i].describe.ok =>
            /\ produced[i].Tags = EmptyMap
            /\ produced[i].Status =
                  IF AccessDeniedSignature(apiLog[i].describe.err)
                  THEN "Not Authorized"
                  ELSE "Error: " \o ErrorString(apiLog[i].describe.err)

C3_Witness ==
    \E i, j, k \in DOMAIN produced :
        /\ ~apiLog[i].describe.ok /\ ~apiLog[j].describe.ok /\ ~apiLog[k].describe.ok
        /\ apiLog[i].describe.err.code = "AccessDeniedException"
        /\ apiLog[i].describe.err.message = ""
        /\ produced[i].Status = "Not Authorized"
        /\ apiLog[j].describe.err.code = "AccessDeniedException"
        /\ apiLog[j].describe.err.message # ""
        /\ produced[j].Status = "Not Authorized"
        /\ apiLog[k].describe.err.code = "KMSInternalException"
        /\ produced[k].Status =
              "Error: operation error KMS: api error KMSInternalException: internal failure"

\* C4: in every record getKeyInfo produces, Tags is non-empty only if Status is
\* "Enabled"; ListResourceTags is called exactly for the keys DescribeKey reports as
\* Enabled; a key in another state keeps that state as Status with empty Tags; and a
\* failing ListResourceTags call leaves the record Enabled with empty Tags.
C4_TagsOnlyWhenEnabled ==
    \A i \in DOMAIN produced :
        LET r == produced[i]
            d == apiLog[i].describe
            t == apiLog[i].tags
            enabled == d.ok /\ d.meta.KeyState = "Enabled"
        IN  /\ r.Tags # EmptyMap => r.Status = "Enabled"
            /\ (t # NoCall) <=> enabled
            /\ (d.ok /\ ~enabled) => (r.Status = d.meta.KeyState /\ r.Tags = EmptyMap)
            /\ ~d.ok => r.Tags = EmptyMap
            /\ (enabled /\ ~t.ok) => (r.Status = "Enabled" /\ r.Tags = EmptyMap)
            /\ (enabled /\ t.ok) => (r.Status = "Enabled" /\ r.Tags = TagsInto(EmptyMap, t.tags))

C4_Witness ==
    \E i, j, k \in DOMAIN produced :
        /\ produced[i].Status = "Disabled" /\ apiLog[i].tags = NoCall
        /\ produced[j].Status = "Enabled" /\ apiLog[j].tags # NoCall /\ ~apiLog[j].tags.ok
        /\ produced[j].Tags = EmptyMap
        /\ produced[k].Status = "Enabled" /\ produced[k].Tags # EmptyMap

\* C5: listAllKeys starts with an absent marker, follows every truncated response
\* with exactly one call carrying that response's NextMarker, stops at the first
\* response that is not truncated and never repeats a continuation token: call i
\* requests page i, while the loop runs a page is still left to request (so the
\* loop ends after at most as many calls as there are pages), and when it has
\* returned the keys every page has been requested exactly once.
C5_PaginatesToExhaustion ==
    /\ \A i, j \in DOMAIN listCalls : i # j => listCalls[i] # listCalls[j]
    /\ listCalls # <<>> => listCalls[1] = Nil
    /\ \A i \in DOMAIN listCalls :
          /\ PageIndex(listCalls[i]) = i
          /\ i > 1 => /\ ListKeysOutput(listCalls[i - 1]).Truncated
                      /\ listCalls[i] = ListKeysOutput(listCalls[i - 1]).NextMarker
    /\ pc = "list" =>
          /\ Len(listCalls) < Len(kmsPages)
          /\ PageIndex(marker) = Len(listCalls) + 1
          /\ \A i \in DOMAIN listCalls : ListKeysOutput(listCalls[i]).Truncated
    /\ pc \in {"enrich", "done"} =>
          /\ Len(listCalls) = Len(kmsPages)
          /\ ~ListKeysOutput(listCalls[Len(listCalls)]).Truncated
          /\ \A i \in 1..(Len(listCalls) - 1) : ListKeysOutput(listCalls[i]).Truncated

C5_Witness ==
    /\ pc = "enrich"
    /\ Len(kmsPages) >= 3
    /\ Len(listCalls) = Len(kmsPages)
    /\ listCalls[3] = Ptr(TokenOf(3))

\* C6: the tag columns handed to the enabled-keys table are the tag keys of the
\* records with Status "Enabled", each once, in increasing byte-wise order, whatever
\* order the maps enumerate their keys in.
C6_TagColumnsSortedUnion ==
    pc = "done" =>
        LET U == UNION {DOMAIN produced[i].Tags :
                           i \in {j \in DOMAIN produced : produced[j].Status = "Enabled"}}
        IN  /\ {sortedTagKeys[i] : i \in DOMAIN sortedTagKeys} = U
            /\ Len(sortedTagKeys) = Cardinality(U)
            /\ \A i, j \in DOMAIN sortedTagKeys :
                  i < j => StrLess(sortedTagKeys[i], sortedTagKeys[j])
            /\ enabledKeys # <<>> =>
                  enabledTable.headers =
                     <<"Key ID", "Status", "Creation Date", "Key Type">> \o sortedTagKeys

C6_Witness ==
    /\ pc = "done"
    /\ sortedTagKeys = <<"Env", "Team">>
    /\ \E i, j, k \in DOMAIN enabledKeys :
          /\ i < j /\ k # i /\ k # j
          /\ DOMAIN enabledKeys[i].Tags = {"Team"}
          /\ DOMAIN enabledKeys[j].Tags = {"Env"}
          /\ DOMAIN enabledKeys[k].Tags = {"Env"}

\* what C7 says of one printed table
WidthsFit(t) ==
    /\ Len(t.widths) = Len(t.headers)
    /\ \A c \in DOMAIN t.widths :
          t.widths[c] = Max({Len(t.headers[c])} \cup {Len(t.rows[k][c]) : k \in DOMAIN t.rows})
    /\ \A k \in DOMAIN t.rows :
          /\ Len(t.rows[k]) = Len(t.headers)
          /\ Len(t.lines[k + 2]) = Len(t.lines[2])
          /\ \A c \in DOMAIN t.widths :
                /\ Len(t.rows[k][c]) <= t.widths[c]
                /\ SubSeq(t.lines[k + 2], SumWidths(t.widths, c - 1) + 3,
                          SumWidths(t.widths, c - 1) + 2 + Len(t.rows[k][c])) = t.rows[k][c]
    /\ t.lines # <<>> =>
          /\ Len(t.lines) = Len(t.rows) + 2
          /\ Len(t.lines[1]) = SumWidths(t.widths, Len(t.widths)) + 1
          /\ Len(t.lines[2]) = SumWidths(t.widths, Len(t.widths)) + 1

\* C7: in both tables every column's width is the maximum of the lengths of the
\* header and of the text rendered in that column in every row ("-" for a tag the
\* key does not carry), so every cell is printed whole within its column.
C7_WidthIsMaxRendered ==
    pc = "done" =>
        /\ WidthsFit(enabledTable)
        /\ WidthsFit(naTable)
        /\ enabledKeys # <<>> => Len(enabledTable.rows) = Len(enabledKeys)
        /\ notAuthorizedKeys # <<>> => Len(naTable.rows) = Len(notAuthorizedKeys)

C7_Witness ==
    /\ pc = "done"
    /\ Len(enabledTable.rows) >= 2
    /\ Len(naTable.rows) >= 1
    /\ \E k \in DOMAIN enabledTable.rows, c \in DOMAIN enabledTable.widths :
          /\ c > 4
          /\ enabledTable.rows[k][c] = "-"
          /\ enabledTable.widths[c] > Len(enabledTable.headers[c])
    /\ enabledTable.widths[1] > Len("Key ID")
    /\ naTable.widths[2] > Len("Status")

\* ================================================================== properties: secrets exporter
\* C2: a listing failure never yields a partial inventory: once a listing call has
\* failed, on whatever page, no record is returned or written; the run ends with an
\* error unless the failure is an authorization denial, and then the result is empty.
C2_NoPartialInventory ==
    listErr # Nil =>
        /\ listed = <<>>
        /\ file = oldFile
        /\ ~isNotAuthorizedError(Deref(listErr)) => exitCode = 1
        /\ isNotAuthorizedError(Deref(listErr)) => exitCode \in {Running, 0}

\* C8: listSecrets stores as last_accessed_date the number N of the epoch day that
\* holds the entry's last-accessed time t (N*86400 <= t < (N+1)*86400), an entry
\* without one gets none, the exported row carries the same N, and truncating
\* midnight of day N gives N again.
C8_LastAccessedIsEpochDay ==
    /\ \A i \in DOMAIN secrets :
          LET src == Listing[i].LastAccessedDate
              got == secrets[i].LastAccessedDate
          IN  IF src = Nil THEN got = Nil
              ELSE /\ got # Nil
                   /\ Deref(got) * 86400 <= Unix(Deref(src))
                   /\ Unix(Deref(src)) < (Deref(got) + 1) * 86400
                   /\ Deref(got) = Deref(src).day
                   /\ EpochDays(Deref(got) * 86400) = Deref(got)
    /\ (exitCode = 0 /\ listed # <<>>) =>
          \A i \in DOMAIN listed :
              FileRows(file)[i].last_accessed_date = listed[i].LastAccessedDate

C8_Witness ==
    /\ exitCode = 0
    /\ Len(listed) >= 2
    /\ \E i, j \in DOMAIN listed :
          /\ Listing[i].LastAccessedDate = Ptr(T1)
          /\ FileRows(file)[i].last_accessed_date = Ptr(19675)
          /\ Listing[j].LastAccessedDate \in {Ptr(T2), Ptr(T3)}
          /\ FileRows(file)[j].last_accessed_date \in {Ptr(19676), Ptr(0)}

\* C9 as claimed: an entry without a description and an entry whose description is
\* the empty string never get the same Description in their SecretRecords.
C9_NullDistinctFromEmpty ==
    \A i, j \in DOMAIN secrets :
        (Listing[i].Description = Nil /\ Listing[j].Description = Ptr(""))
            => secrets[i].Description # secrets[j].Description

\* C9 as the code has it: an entry without a description and an entry whose
\* description is the empty string both get a nil Description, exported as null;
\* only a non-empty description is kept, unchanged.
C9_EmptyDescriptionIsNull ==
    /\ \A i \in DOMAIN secrets :
          secrets[i].Description =
             IF Listing[i].Description = Nil \/ Listing[i].Description = Ptr("")
             THEN Nil ELSE Listing[i].Description
    /\ (exitCode = 0 /\ listed # <<>>) =>
          \A i \in DOMAIN listed :
              FileRows(file)[i].description = listed[i].Description

C9_Witness ==
    /\ exitCode = 0
    /\ Len(listed) >= 2
    /\ \E i, j \in DOMAIN listed :
          /\ Listing[i].Description = Nil
          /\ Listing[j].Description = Ptr("")
          /\ FileRows(file)[i].description = Nil
          /\ FileRows(file)[j].description = Nil

\* C10 as claimed: after every run that ends with exit status zero the file holds
\* exactly the rows of that run's listing, also when the listing is empty.
C10_FileRewrittenOnExitZero ==
    exitCode = 0 => file = FileOf(RowsOf(listed, variant))

\* C10 as the code has it: after a run that ends with exit status zero and listed at
\* least one secret, the file holds exactly the rows of the records listSecrets
\* returned and nothing an earlier run left; after a run that ends with exit status
\* zero and listed none, the file is as it was before the run.
C10_FileRewrittenUnlessEmpty ==
    exitCode = 0 =>
        IF listed = <<>> THEN file = oldFile
        ELSE /\ file = FileOf(RowsOf(listed, variant))
             /\ Len(FileRows(file)) = Len(listed)
             /\ \A i \in DOMAIN listed : FileRows(file)[i].name = listed[i].Name

C10_Witness ==
    /\ exitCode = 0
    /\ oldFile = StaleFile
    /\ Len(listed) >= 2
    /\ file # oldFile
    /\ Len(FileRows(file)) = Len(listed)

\* ================================================================== properties: KMS tally
HasStatus(st) == {i \in DOMAIN produced : produced[i].Status = st}
IsEnabledRecord(r) == r.Status = "Enabled"
IsDeniedRecord(r) == r.Status = "Not Authorized"

\* C11: the enabled table holds exactly the records whose Status is "Enabled", the
\* not-authorized table exactly those whose Status is "Not Authorized", both in
\* listing order, and a record with any other Status is in neither; no record is in
\* both; the tally printed is Total = number of keys, Enabled and Not Authorized =
\* the sizes of the two tables, with Enabled + Not Authorized <= Total and equality
\* exactly when no listed key has another Status.
C11_TablesPartitionByStatus ==
    /\ enabledKeys = SelectSeq(produced, IsEnabledRecord)
    /\ notAuthorizedKeys = SelectSeq(produced, IsDeniedRecord)
    /\ \A i \in DOMAIN enabledKeys, j \in DOMAIN notAuthorizedKeys :
          enabledKeys[i] # notAuthorizedKeys[j]
    /\ Len(enabledKeys) + Len(notAuthorizedKeys) <= Len(produced)
    /\ pc = "done" =>
          LET n == Len(stdout)
              others == {i \in DOMAIN produced :
                            produced[i].Status \notin {"Enabled", "Not Authorized"}}
          IN  /\ stdout[n - 2] = "Total Customer Managed Keys: " \o ToString(Len(keys))
              /\ stdout[n - 1] = "  Enabled: " \o ToString(Cardinality(HasStatus("Enabled")))
              /\ stdout[n] = "  Not Authorized: "
                                \o ToString(Cardinality(HasStatus("Not Authorized")))
              /\ Cardinality(HasStatus("Enabled")) + Cardinality(HasStatus("Not Authorized"))
                    <= Len(keys)
              /\ (Cardinality(HasStatus("Enabled")) + Cardinality(HasStatus("Not Authorized"))
                    = Len(keys)) <=> (others = {})
              /\ [k \in DOMAIN enabledTable.rows |-> enabledTable.rows[k][1]]
                    = [k \in DOMAIN enabledKeys |-> enabledKeys[k].KeyID]
              /\ [k \in DOMAIN naTable.rows |-> naTable.rows[k][1]]
                    = [k \in DOMAIN notAuthorizedKeys |-> notAuthorizedKeys[k].KeyID]

C11_Witness ==
    /\ pc = "done"
    /\ Len(keys) = 3
    /\ Len(enabledKeys) = 1
    /\ Len(notAuthorizedKeys) = 1
    /\ \E i \in DOMAIN produced : SubSeq(produced[i].Status, 1, 6) = "Error:"
    /\ stdout[Len(stdout) - 2] = "Total Customer Managed Keys: 3"
    /\ stdout[Len(stdout) - 1] = "  Enabled: 1"
    /\ stdout[Len(stdout)] = "  Not Authorized: 1"

====
